---------------------------- MODULE Spec2Model ----------------------------
(***************************************************************************)
(* Model of the Paperly proof-of-concept health reporter                   *)
(* (src/paper_system_poc.py): four dependency probes, run_health_checks,   *)
(* collect_system_metrics, generate_system_report, run_comprehensive_demo  *)
(* and main; and of its companion test suite (src/testing_script.py):     *)
(* PaperlyTester.run_all_tests and the checks it runs.                     *)
(*                                                                         *)
(* The program is sequential.  pc is the position of the single thread of  *)
(* control; the answers of the external collaborators (database, cache,    *)
(* search cluster, graph store, psutil, the file system) are inputs drawn  *)
(* with \E at the step that consults them.                                 *)
(*                                                                         *)
(* A Python dict is modelled as the sequence of its entries                *)
(* [key |-> k, value |-> v] in insertion order.  An optional value (None   *)
(* or a value) is the empty sequence or a one-element sequence.            *)
(***************************************************************************)
EXTENDS Integers, Sequences, FiniteSets, TLC

VARIABLES
    pc,             \* position of the thread of control
    health_status,  \* self.health_status
    metrics,        \* self.metrics
    health_checks,  \* the dict literal under construction in run_health_checks
    calls,          \* the probe invocations of this run: [probe, outcome], in order
    system_metrics, \* optional: what collect_system_metrics returned
    report,         \* optional: what generate_system_report returned
    report_file,    \* optional: the content of paperly_poc_demo_report.json
    exc,            \* optional: the exception raised and not handled where raised
    log_errors,     \* the messages logged with logger.error
    main_result,    \* "running", "report", "None" or "propagated"
    exit_status,    \* optional: the exit status of the process
    runs,           \* the number of generate_system_report calls begun on the object
    t_pc,           \* testing_script.py: position of control in run_all_tests
    results,        \* PaperlyTester.results
    passed,         \* the local `passed` of run_all_tests
    started,        \* the tests run_all_tests has called: [name, dep], in order
    api_calls,      \* what requests.get did for each endpoint probed, in order
    t_ret,          \* optional: what run_all_tests returned
    t_exc           \* optional: the exception that left run_all_tests

\* the state of the PaperlyTester of testing_script.py
tester_vars == <<t_pc, results, passed, started, api_calls, t_ret, t_exc>>

vars == <<pc, health_status, metrics, health_checks, calls,
          system_metrics, report, report_file, exc, log_errors, main_result,
          exit_status, runs, tester_vars>>

\* no PaperlyTester is at work
TesterIdle ==
    /\ t_pc = "idle"
    /\ results = <<>>
    /\ passed = 0
    /\ started = <<>>
    /\ api_calls = <<>>
    /\ t_ret = <<>>
    /\ t_exc = <<>>

-----------------------------------------------------------------------------
(* Bounds of the model.                                                    *)

\* response times measured by a probe are drawn from 1..MaxResp
MaxResp == 2
\* SELECT COUNT(*) FROM papers answers 0..MaxPapers
MaxPapers == 0
\* uptime_seconds is drawn from 1..MaxUptime
MaxUptime == 1
\* the status lists given to the report builder have at most MaxLen entries
MaxLen == 4
\* generate_system_report is called at most MaxRuns times on one object
MaxRuns == 2

-----------------------------------------------------------------------------
(* Python values.                                                          *)

None == <<>>

Some(v) == <<v>>

\* the value of datetime.now() / datetime.now().isoformat(); no claim reads it
Timestamp == "isoformat"

\* dict lookups on a sequence of entries
Keys(d) == [i \in 1..Len(d) |-> d[i].key]

HasKey(d, k) == \E i \in 1..Len(d) : d[i].key = k

Get(d, k) == d[CHOOSE i \in 1..Len(d) : d[i].key = k].value

Entry(k, v) == [key |-> k, value |-> v]

\* the exception classes the model raises, each with its base classes
Ancestors(type) ==
    CASE type = "ImportError" -> {"ImportError", "Exception", "BaseException"}
      [] type = "OSError"     -> {"OSError", "Exception", "BaseException"}
      [] type = "DriverError" -> {"DriverError", "Exception", "BaseException"}
      [] type = "RuntimeError" -> {"RuntimeError", "Exception", "BaseException"}
      [] type = "ConnectionError" ->
             {"ConnectionError", "RequestException", "OSError", "Exception", "BaseException"}
      [] type = "ProtocolError" -> {"ProtocolError", "Exception", "BaseException"}
      [] OTHER                -> {"BaseException"}

\* `except cls` handles e
Catches(cls, e) == cls \in Ancestors(e.type)

\* str(e): '' for an exception built without arguments, the argument for one
StrExc(e) == IF Len(e.args) = 0 THEN "" ELSE e.args[1]

\* the completion of a call: a returned value or a raised exception
Return(v) == [raises |-> FALSE, value |-> v]

Raise(e) == [raises |-> TRUE, exc |-> e]


\* an exception object; traceback names the function whose statement raised it
Exception(type, args, where) == [type |-> type, args |-> args, traceback |-> where]

-----------------------------------------------------------------------------
(* The probes: check_*_health.  dep is what the vendor client does when    *)
(* called, rt the elapsed time the probe measures.                         *)

\* @dataclass SystemHealth
SystemHealth(component, status, response_time_ms, details) ==
    [component |-> component, status |-> status,
     response_time_ms |-> response_time_ms, last_check |-> Timestamp,
     details |-> details]

\* the errors a vendor client call can raise: with a message and without one
DriverErrors(where) ==
    { Exception("DriverError", <<"connection refused">>, where),
      Exception("DriverError", <<>>, where) }

ClusterStatuses == {"green", "yellow", "red"}

\* what each dependency can answer to its probe
DatabaseAnswers ==
    { [kind |-> "ok", count |-> n] : n \in 0..MaxPapers }
    \cup { [kind |-> "raise", exc |-> e] : e \in DriverErrors("check_database_health") }

CacheAnswers ==
    { [kind |-> "ok"] }
    \cup { [kind |-> "raise", exc |-> e] : e \in DriverErrors("check_cache_health") }

SearchAnswers ==
    { [kind |-> "ok", ping |-> TRUE, cluster_health |-> [status |-> s]] :
          s \in ClusterStatuses }
    \cup { [kind |-> "ok", ping |-> FALSE] }
    \cup { [kind |-> "raise", exc |-> e] : e \in DriverErrors("check_search_health") }

GraphAnswers ==
    { [kind |-> "ok", components |-> <<"Neo4j Kernel">>] }
    \cup { [kind |-> "raise", exc |-> e] : e \in DriverErrors("check_graph_health") }

\* the class named by the probes' `except Exception as e`
ProbeHandlerClass == "Exception"

\* the except clause of a probe: an unhealthy result carrying str(e)
ProbeExcept(component, e, rt) ==
    IF Catches(ProbeHandlerClass, e)
    THEN Return(SystemHealth(component, "unhealthy", rt, [error |-> StrExc(e)]))
    ELSE Raise(e)

check_database_health(dep, rt) ==
    IF dep.kind = "ok"
    THEN Return(SystemHealth("database", "healthy", rt, [paper_count |-> dep.count]))
    ELSE ProbeExcept("database", dep.exc, rt)

\* a faulty variant of check_cache_health: the result names the wrong component
check_cache_health_WrongComponent(dep, rt) ==
    IF dep.kind = "ok"
    THEN Return(SystemHealth("database", "healthy", rt, [operation |-> "ping_and_test"]))
    ELSE ProbeExcept("database", dep.exc, rt)

check_cache_health(dep, rt) ==
    IF dep.kind = "ok"
    THEN Return(SystemHealth("cache", "healthy", rt, [operation |-> "ping_and_test"]))
    ELSE ProbeExcept("cache", dep.exc, rt)

\* a faulty variant of SearchStatus: only a green cluster counts as healthy
SearchStatus_GreenOnly(cluster_health) ==
    IF cluster_health.status = "green" THEN "healthy" ELSE "degraded"

SearchStatus(cluster_health) ==
    IF cluster_health.status \in {"green", "yellow"} THEN "healthy" ELSE "degraded"

check_search_health(dep, rt) ==
    IF dep.kind = "ok"
    THEN IF dep.ping
         THEN Return(SystemHealth("search", SearchStatus(dep.cluster_health), rt,
                                  dep.cluster_health))
         ELSE Return(SystemHealth("search", "unhealthy", rt, [error |-> "ping_failed"]))
    ELSE ProbeExcept("search", dep.exc, rt)

check_graph_health(dep, rt) ==
    IF dep.kind = "ok"
    THEN Return(SystemHealth("graph", "healthy", rt, [components |-> dep.components]))
    ELSE ProbeExcept("graph", dep.exc, rt)

-----------------------------------------------------------------------------
(* run_health_checks: the dict literal of lines 178-183.                   *)

\* the keys of the dict literal, in the order written
ProbeKeys == <<"database", "cache", "search", "graph">>

\* the answers the dependency behind the i-th entry can give
Answers == <<DatabaseAnswers, CacheAnswers, SearchAnswers, GraphAnswers>>

\* the method called for the i-th entry
ProbeMethods ==
    <<"check_database_health", "check_cache_health", "check_search_health",
      "check_graph_health">>

\* a probe invocation that throws outside the probe's own try block
DefectAnswers(i) ==
    { [kind |-> "defect", exc |-> Exception("RuntimeError", <<"defect">>, ProbeMethods[i])] }

\* the call that computes the value of the i-th entry; nothing around it
\* catches, so what a probe throws outside its try block leaves the call
InvokeProbe(i, dep, rt) ==
    IF dep.kind = "defect"
    THEN Raise(dep.exc)
    ELSE CASE i = 1 -> check_database_health(dep, rt)
           [] i = 2 -> check_cache_health(dep, rt)
           [] i = 3 -> check_search_health(dep, rt)
           [] i = 4 -> check_graph_health(dep, rt)

-----------------------------------------------------------------------------
(* collect_system_metrics.                                                 *)

\* the percentages psutil reads; nothing in the program looks at them
CpuReadings == {0, 100}

MemoryReadings == {50}

DiskReadings == {75}

\* what psutil does: the import fails, a sampling call raises, or the three
\* gauges are read
PsutilAnswers ==
    { [kind |-> "missing", exc |-> Exception("ImportError", <<"No module named 'psutil'">>,
                                             "collect_system_metrics")] }
    \cup { [kind |-> "raise", exc |-> Exception("OSError", <<"disk_usage failed">>,
                                                "collect_system_metrics")] }
    \cup { [kind |-> "ok", cpu |-> c, memory |-> m, disk |-> d] :
              c \in CpuReadings, m \in MemoryReadings, d \in DiskReadings }

\* the components whose response time is copied (lines 207-217)
KnownComponents == {"database", "cache", "search", "graph"}

ResponseKey(c) ==
    CASE c = "database" -> "database_response_ms"
      [] c = "cache"    -> "cache_response_ms"
      [] c = "search"   -> "search_response_ms"
      [] c = "graph"    -> "graph_response_ms"

\* the dict literal of lines 199-205
HostMetrics(ps, uptime) ==
    [timestamp |-> Timestamp, uptime_seconds |-> uptime, cpu_percent |-> ps.cpu,
     memory_percent |-> ps.memory, disk_percent |-> ps.disk]

\* lines 207-217: m with '<component>_response_ms' added for each known
\* component that is a key of hs
WithResponseTimes(m, hs) ==
    LET present == { c \in KnownComponents : HasKey(hs, c) }
        added   == { ResponseKey(c) : c \in present }
    IN  [k \in DOMAIN m \cup added |->
            IF k \in added
            THEN Get(hs, CHOOSE c \in present : ResponseKey(c) = k).response_time_ms
            ELSE m[k]]

\* the class named by `except ImportError` around `import psutil`
ImportHandlerClass == "ImportError"

\* the whole method: what it returns or raises
collect_system_metrics(hs, ps, uptime) ==
    IF ps.kind = "missing"
    THEN IF Catches(ImportHandlerClass, ps.exc)
         THEN Return([timestamp |-> Timestamp])
         ELSE Raise(ps.exc)
    ELSE IF ps.kind = "raise"
         THEN Raise(ps.exc)
         ELSE Return(WithResponseTimes(HostMetrics(ps, uptime), hs))

\* whether the call reaches `self.metrics = metrics` (line 219)
StoresMetrics(ps) == ps.kind = "ok"

-----------------------------------------------------------------------------
(* generate_system_report, lines 226-248.                                  *)

\* statuses = [health.status for health in health_status.values()]
StatusList(hs) == [i \in 1..Len(hs) |-> hs[i].value.status]

\* a faulty variant of OverallStatus: the final else reports "degraded"
OverallStatus_ElseDegraded(statuses) ==
    IF \A i \in 1..Len(statuses) : statuses[i] = "healthy"
    THEN "healthy"
    ELSE IF \E i \in 1..Len(statuses) : statuses[i] = "unhealthy"
         THEN "degraded"
         ELSE "degraded"

\* the if / elif / else of lines 227-232
OverallStatus(statuses) ==
    IF \A i \in 1..Len(statuses) : statuses[i] = "healthy"
    THEN "healthy"
    ELSE IF \E i \in 1..Len(statuses) : statuses[i] = "unhealthy"
         THEN "degraded"
         ELSE "healthy"

\* sum(1 for s in statuses if s == v)
CountOf(statuses, v) == Cardinality({ i \in 1..Len(statuses) : statuses[i] = v })

\* a faulty variant of ComponentSummary: 'degraded' counts the unhealthy ones
ComponentSummary_DegradedMiscounted(statuses) ==
    [healthy   |-> CountOf(statuses, "healthy"),
     degraded  |-> CountOf(statuses, "unhealthy"),
     unhealthy |-> CountOf(statuses, "unhealthy"),
     total     |-> Len(statuses)]

ComponentSummary(statuses) ==
    [healthy   |-> CountOf(statuses, "healthy"),
     degraded  |-> CountOf(statuses, "degraded"),
     unhealthy |-> CountOf(statuses, "unhealthy"),
     total     |-> Len(statuses)]

\* system_metrics.get('uptime_seconds', 0)
UptimeOf(sm) == IF "uptime_seconds" \in DOMAIN sm THEN sm["uptime_seconds"] ELSE 0

BuildReport(hs, sm) ==
    [overall_status    |-> OverallStatus(StatusList(hs)),
     timestamp         |-> Timestamp,
     uptime_seconds    |-> UptimeOf(sm),
     health_checks     |-> hs,
     system_metrics    |-> sm,
     component_summary |-> ComponentSummary(StatusList(hs))]

-----------------------------------------------------------------------------
(* run_comprehensive_demo: the two demonstrations and the report file.     *)

\* len(demo_papers)
NumDemoPapers == 2
\* len(demo_queries)
NumDemoQueries == 4
\* len(mock_results)
ResultsPerQuery == 3

\* the loop of lines 281-289 only logs and sleeps: every paper is processed
demo_paper_processing ==
    [total_papers |-> NumDemoPapers, processed |-> NumDemoPapers, failed |-> 0,
     success_rate |-> (NumDemoPapers * 100) \div NumDemoPapers]

demo_search_functionality ==
    [queries_processed |-> NumDemoQueries,
     total_results |-> NumDemoQueries * ResultsPerQuery,
     average_results_per_query |-> (NumDemoQueries * ResultsPerQuery) \div NumDemoQueries]

\* the dict literal of lines 339-354
ComprehensiveReport(system_report) ==
    [demo_info |-> [start_time |-> Timestamp, status |-> "completed"],
     system_health |-> system_report,
     paper_processing |-> demo_paper_processing,
     search_functionality |-> demo_search_functionality,
     summary |-> [overall_health |-> system_report.overall_status,
                  papers_processed |-> demo_paper_processing.processed,
                  search_queries |-> demo_search_functionality.queries_processed,
                  demo_success |-> TRUE]]

\* what open('paperly_poc_demo_report.json', 'w') does
FileAnswers ==
    { [kind |-> "ok"],
      [kind |-> "raise", exc |-> Exception("OSError", <<"Permission denied">>,
                                           "run_comprehensive_demo")] }

\* a faulty variant of MainHandlerClass: main handles import errors only
MainHandlerClass_ImportError == "ImportError"

\* the class named by main's `except Exception as e`
MainHandlerClass == "Exception"

-----------------------------------------------------------------------------
(* The state machine.                                                      *)

\* PaperlySystemPOC() has been constructed and main is entering its try
Init ==
    /\ pc = "main"
    /\ health_status = <<>>
    /\ metrics = <<>>
    /\ health_checks = <<>>
    /\ calls = <<>>
    /\ system_metrics = None
    /\ report = None
    /\ report_file = None
    /\ exc = None
    /\ log_errors = <<>>
    /\ main_result = "running"
    /\ exit_status = None
    /\ runs = 1
    /\ TesterIdle

\* main calls run_comprehensive_demo, which calls generate_system_report, which
\* calls run_health_checks: control reaches the dict literal
EnterRunHealthChecks ==
    /\ pc = "main"
    /\ pc' = "rhc"
    /\ health_checks' = <<>>
    /\ calls' = <<>>
    /\ UNCHANGED <<health_status, metrics, system_metrics, report,
                   report_file, exc, log_errors, main_result, exit_status>>
    /\ UNCHANGED <<runs, tester_vars>>

\* the next entry of the dict literal calls its probe; answers is what the
\* dependencies may do
ProbeCall(answers) ==
    /\ pc = "rhc"
    /\ Len(health_checks) < Len(ProbeKeys)
    /\ LET i == Len(health_checks) + 1
       IN  \E dep \in answers[i] :
               calls' = Append(calls, [probe |-> ProbeMethods[i], dep |-> dep])
    /\ pc' = "probe"
    /\ UNCHANGED <<health_status, metrics, health_checks,
                   system_metrics, report, report_file, exc, log_errors,
                   main_result, exit_status>>
    /\ UNCHANGED <<runs, tester_vars>>

\* the probe completes: its result becomes the entry's value, or what it
\* raised unwinds run_health_checks, generate_system_report and
\* run_comprehensive_demo, none of which has a handler, up to main's try
ProbeReturn ==
    /\ pc = "probe"
    /\ \E rt \in 1..MaxResp :
         LET i == Len(calls)
             r == InvokeProbe(i, calls[i].dep, rt)
         IN  IF r.raises
             THEN /\ exc' = Some(r.exc)
                  /\ pc' = "except"
                  /\ UNCHANGED health_checks
             ELSE /\ health_checks' = Append(health_checks, Entry(ProbeKeys[i], r.value))
                  /\ pc' = "rhc"
                  /\ UNCHANGED exc
    /\ UNCHANGED <<health_status, metrics, calls, system_metrics,
                   report, report_file, log_errors, main_result, exit_status>>
    /\ UNCHANGED <<runs, tester_vars>>

\* lines 185-190: the finished dict is stored and returned
RunHealthChecksReturn ==
    /\ pc = "rhc"
    /\ Len(health_checks) = Len(ProbeKeys)
    /\ health_status' = health_checks
    /\ pc' = "csm"
    /\ UNCHANGED <<metrics, health_checks, calls, system_metrics,
                   report, report_file, exc, log_errors, main_result, exit_status>>
    /\ UNCHANGED <<runs, tester_vars>>

\* `import psutil` cannot fail in a process where it has succeeded (the
\* module stays in sys.modules), and self.metrics is set only after it has
PsutilCanAnswer(ps) == ps.kind = "missing" => DOMAIN metrics = {}

\* generate_system_report line 224: the whole of collect_system_metrics
CollectSystemMetrics ==
    /\ pc = "csm"
    /\ \E ps \in PsutilAnswers, uptime \in 1..MaxUptime :
         LET r == collect_system_metrics(health_status, ps, uptime)
         IN  /\ PsutilCanAnswer(ps)
             /\ IF r.raises
                THEN /\ exc' = Some(r.exc)
                     /\ pc' = "except"
                     /\ UNCHANGED <<system_metrics, metrics>>
                ELSE /\ system_metrics' = Some(r.value)
                     /\ metrics' = IF StoresMetrics(ps) THEN r.value ELSE metrics
                     /\ pc' = "build"
                     /\ UNCHANGED exc
    /\ UNCHANGED <<health_status, health_checks, calls, report,
                   report_file, log_errors, main_result, exit_status>>
    /\ UNCHANGED <<runs, tester_vars>>

\* generate_system_report lines 226-248
GenerateSystemReport ==
    /\ pc = "build"
    /\ report' = Some(BuildReport(health_checks, system_metrics[1]))
    /\ pc' = "demos"
    /\ UNCHANGED <<health_status, metrics, health_checks, calls, system_metrics,
                   report_file, exc, log_errors, main_result, exit_status>>
    /\ UNCHANGED <<runs, tester_vars>>

\* run_comprehensive_demo lines 334-362: the demonstrations, then the file
RunDemosAndWrite ==
    /\ pc = "demos"
    /\ \E fs \in FileAnswers :
         IF fs.kind = "ok"
         THEN /\ report_file' = Some(ComprehensiveReport(report[1]))
              /\ pc' = "print"
              /\ UNCHANGED exc
         ELSE /\ exc' = Some(fs.exc)
              /\ pc' = "except"
              /\ UNCHANGED report_file
    /\ UNCHANGED <<health_status, metrics, health_checks, calls,
                   system_metrics, report, log_errors, main_result, exit_status>>
    /\ UNCHANGED <<runs, tester_vars>>

\* main lines 373-379: the summary is printed and the report returned
MainReturn ==
    /\ pc = "print"
    /\ main_result' = "report"
    /\ pc' = "exit"
    /\ UNCHANGED <<health_status, metrics, health_checks, calls,
                   system_metrics, report, report_file, exc, log_errors, exit_status>>
    /\ UNCHANGED <<runs, tester_vars>>

\* main lines 381-383: the except clause of main's try
MainExcept ==
    /\ pc = "except"
    /\ IF Catches(MainHandlerClass, exc[1])
       THEN /\ log_errors' = Append(log_errors, [prefix |-> "Demo failed: ",
                                                  text |-> StrExc(exc[1])])
            /\ main_result' = "None"
       ELSE /\ main_result' = "propagated"
            /\ UNCHANGED log_errors
    /\ pc' = "exit"
    /\ UNCHANGED <<health_status, metrics, health_checks, calls,
                   system_metrics, report, report_file, exc, exit_status>>
    /\ UNCHANGED <<runs, tester_vars>>

\* lines 385-386: main()'s value is dropped and the interpreter exits: 0 after
\* a normal return, 1 after an uncaught exception
ProcessExit ==
    /\ pc = "exit"
    /\ exit_status' = Some(IF main_result = "propagated" THEN 1 ELSE 0)
    /\ pc' = "done"
    /\ UNCHANGED <<health_status, metrics, health_checks, calls,
                   system_metrics, report, report_file, exc, log_errors, main_result>>
    /\ UNCHANGED <<runs, tester_vars>>

Next ==
    \/ EnterRunHealthChecks
    \/ ProbeCall(Answers)
    \/ ProbeReturn
    \/ RunHealthChecksReturn
    \/ CollectSystemMetrics
    \/ GenerateSystemReport
    \/ RunDemosAndWrite
    \/ MainReturn
    \/ MainExcept
    \/ ProcessExit

Spec == Init /\ [][Next]_vars

-----------------------------------------------------------------------------
(* The same program with a probe that can throw outside its try block (a   *)
(* statement before `try:` or inside the except clause raising).           *)

AnswersOrDefect == [i \in 1..Len(Answers) |-> Answers[i] \cup DefectAnswers(i)]

NextDefect ==
    \/ EnterRunHealthChecks
    \/ ProbeCall(AnswersOrDefect)
    \/ ProbeReturn
    \/ RunHealthChecksReturn
    \/ CollectSystemMetrics
    \/ GenerateSystemReport
    \/ RunDemosAndWrite
    \/ MainReturn
    \/ MainExcept
    \/ ProcessExit

SpecDefect == Init /\ [][NextDefect]_vars

-----------------------------------------------------------------------------
(* Lines 226-248 of generate_system_report on every mapping of at most     *)
(* MaxLen probe results, whatever their statuses.                          *)

StatusValues == {"healthy", "degraded", "unhealthy"}

\* keys for the entries of such a mapping: the four components, then others
ResultKeys == ProbeKeys \o <<"queue", "storage">>

\* the mapping whose i-th entry has status st[i]
ResultsWith(st) ==
    [i \in 1..Len(st) |->
        Entry(ResultKeys[i], SystemHealth(ResultKeys[i], st[i], 1, [checked |-> TRUE]))]

InitAgg ==
    /\ pc = "build"
    /\ \E n \in 0..MaxLen : \E st \in [1..n -> StatusValues] :
           health_checks = ResultsWith(st)
    /\ health_status = health_checks
    /\ \E uptime \in 1..MaxUptime :
           system_metrics \in { Some([timestamp |-> Timestamp]),
                                Some([timestamp |-> Timestamp, uptime_seconds |-> uptime]) }
    /\ metrics = <<>>
    /\ calls = <<>>
    /\ report = None
    /\ report_file = None
    /\ exc = None
    /\ log_errors = <<>>
    /\ main_result = "running"
    /\ exit_status = None
    /\ runs = 1
    /\ TesterIdle

NextAgg == GenerateSystemReport

SpecAgg == InitAgg /\ [][NextAgg]_vars

-----------------------------------------------------------------------------
(* generate_system_report called again and again on one PaperlySystemPOC   *)
(* object by a caller that goes on after a call that raised.               *)

\* the answers of the dependencies in these runs: each is up and well, or
\* its client raises an error with a message
RunAnswers ==
    [i \in 1..Len(Answers) |->
        { a \in Answers[i] :
            \/ a.kind = "raise" /\ Len(a.exc.args) > 0
            \/ a.kind = "ok" /\ (i = 3 => (a.ping /\ a.cluster_health.status = "green")) }]

\* the caller calls generate_system_report once more: the locals of the new
\* call are fresh, the fields of the object are as the last call left them
CallAgain ==
    /\ pc \in {"demos", "except"}
    /\ runs < MaxRuns
    /\ runs' = runs + 1
    /\ pc' = "rhc"
    /\ health_checks' = <<>>
    /\ calls' = <<>>
    /\ system_metrics' = None
    /\ report' = None
    /\ exc' = None
    /\ UNCHANGED <<health_status, metrics, report_file, log_errors, main_result,
                   exit_status, tester_vars>>

NextRuns ==
    \/ EnterRunHealthChecks
    \/ ProbeCall(RunAnswers)
    \/ ProbeReturn
    \/ RunHealthChecksReturn
    \/ CollectSystemMetrics
    \/ GenerateSystemReport
    \/ CallAgain

SpecRuns == Init /\ [][NextRuns]_vars

-----------------------------------------------------------------------------
(* testing_script.py: PaperlyTester.  The module's imports have succeeded  *)
(* and PaperlyTester() has been constructed.                               *)

\* log_result: the entry appended to self.results
LogResult(component, status, message) ==
    [timestamp |-> Timestamp, component |-> component, status |-> status,
     message |-> message]

\* what a test method did: the entries it logged and what it returned or raised
TestOutcome(logged, completion) == [logged |-> logged, completion |-> completion]

\* `if test_func():` takes the branch
Truthy(v) == v = "True"

\* what the client used by a connection test does
ClientAnswers(where) ==
    { [kind |-> "ok"],
      [kind |-> "raise", exc |-> Exception("DriverError", <<"connection refused">>, where)] }

\* the four connection tests and the benchmark: SUCCESS and True, or the
\* error caught, FAILED and False
ConnectionTest(component, dep, success_message) ==
    IF dep.kind = "ok"
    THEN TestOutcome(<<LogResult(component, "SUCCESS", success_message)>>, Return("True"))
    ELSE TestOutcome(<<LogResult(component, "FAILED", StrExc(dep.exc))>>, Return("False"))

test_database_connection(dep) == ConnectionTest("DATABASE", dep, "Connected to PostgreSQL")

test_redis_connection(dep) ==
    ConnectionTest("CACHE", dep, "Redis connection and operations working")

ElasticsearchAnswers ==
    { [kind |-> "ok", ping |-> b] : b \in BOOLEAN }
    \cup { [kind |-> "raise", exc |-> Exception("DriverError", <<"connection refused">>,
                                                "test_elasticsearch_connection")] }

test_elasticsearch_connection(dep) ==
    IF dep.kind = "ok" /\ ~dep.ping
    THEN TestOutcome(<<LogResult("SEARCH", "FAILED", "Elasticsearch ping failed")>>,
                     Return("False"))
    ELSE ConnectionTest("SEARCH", dep, "Elasticsearch connection and indexing working")

test_neo4j_connection(dep) == ConnectionTest("GRAPH", dep, "Neo4j connection working")

\* paperly_pipeline cannot be imported, or the classifier answers
PipelineAnswers ==
    { [kind |-> "ok", is_scientific |-> b] : b \in BOOLEAN }
    \cup { [kind |-> "raise", exc |-> Exception("ImportError",
                                                <<"No module named 'paperly_pipeline'">>,
                                                "test_pipeline_components")] }

test_pipeline_components(dep) ==
    IF dep.kind = "ok"
    THEN TestOutcome(<<LogResult("PIPELINE", "SUCCESS", "Pipeline components loaded successfully"),
                       LogResult("CLASSIFIER",
                                 IF dep.is_scientific THEN "SUCCESS" ELSE "WARNING",
                                 "Classification result")>>,
                     Return("True"))
    ELSE TestOutcome(<<LogResult("PIPELINE", "FAILED", StrExc(dep.exc))>>, Return("False"))

test_performance_benchmarks(dep) == ConnectionTest("PERFORMANCE", dep, "DB query, Cache ops")

\* test_api_endpoints: the endpoints probed, in order
Endpoints == <<"/health", "/api/papers", "/api/search">>

\* the status codes a running API may answer with
StatusCodes == {200, 204, 404, 500}

\* what requests.get does: a response, a RequestException, or an error of
\* the transport that requests does not wrap
EndpointAnswers ==
    { [kind |-> "response", status_code |-> c] : c \in StatusCodes }
    \cup { [kind |-> "raise", exc |-> Exception("ConnectionError", <<"connection refused">>,
                                                "test_api_endpoints")] }
    \cup { [kind |-> "raise", exc |-> Exception("ProtocolError", <<"connection aborted">>,
                                                "test_api_endpoints")] }

\* the status codes of `response.status_code in [200, 404]`
ResponsiveCodes == {200, 404}

\* the class named by `except requests.exceptions.RequestException as e`
ApiHandlerClass == "RequestException"

\* one turn of the loop of lines 137-145
ProbeEndpointBody(endpoint, ans) ==
    IF ans.kind = "response"
    THEN IF ans.status_code \in ResponsiveCodes
         THEN TestOutcome(<<LogResult("API", "SUCCESS", <<endpoint, "responsive">>)>>,
                          Return("next"))
         ELSE TestOutcome(<<LogResult("API", "WARNING", <<endpoint, "returned", ans.status_code>>)>>,
                          Return("next"))
    ELSE IF Catches(ApiHandlerClass, ans.exc)
         THEN TestOutcome(<<LogResult("API", "INFO", <<endpoint, "not available">>)>>,
                          Return("next"))
         ELSE TestOutcome(<<>>, Raise(ans.exc))

\* test_api_endpoints has no return statement: the call's value is None
test_api_endpoints_value == "None"

\* run_all_tests: the names of the list `tests`, in order
TestNames ==
    <<"Database Connection", "Redis Cache", "Elasticsearch", "Neo4j Graph DB",
      "API Endpoints", "Pipeline Components", "Performance Benchmarks">>

\* total = len(tests)
Total == Len(TestNames)

\* the tests that are one call-and-catch; "API Endpoints" is a loop of its own
TestAnswers(name) ==
    CASE name = "Database Connection"    -> ClientAnswers("test_database_connection")
      [] name = "Redis Cache"            -> ClientAnswers("test_redis_connection")
      [] name = "Elasticsearch"          -> ElasticsearchAnswers
      [] name = "Neo4j Graph DB"         -> ClientAnswers("test_neo4j_connection")
      [] name = "Pipeline Components"    -> PipelineAnswers
      [] name = "Performance Benchmarks" -> ClientAnswers("test_performance_benchmarks")

TestFunc(name, dep) ==
    CASE name = "Database Connection"    -> test_database_connection(dep)
      [] name = "Redis Cache"            -> test_redis_connection(dep)
      [] name = "Elasticsearch"          -> test_elasticsearch_connection(dep)
      [] name = "Neo4j Graph DB"         -> test_neo4j_connection(dep)
      [] name = "Pipeline Components"    -> test_pipeline_components(dep)
      [] name = "Performance Benchmarks" -> test_performance_benchmarks(dep)

\* what open('test_results.json', 'w') does
ResultsFileAnswers ==
    { [kind |-> "ok"],
      [kind |-> "raise", exc |-> Exception("OSError", <<"Permission denied">>,
                                           "run_all_tests")] }

poc_vars == <<pc, health_status, metrics, health_checks, calls, system_metrics,
              report, report_file, exc, log_errors, main_result, exit_status, runs>>

\* PaperlyTester() has been constructed and run_all_tests is entering its loop
InitTest ==
    /\ pc = "main"
    /\ health_status = <<>>
    /\ metrics = <<>>
    /\ health_checks = <<>>
    /\ calls = <<>>
    /\ system_metrics = None
    /\ report = None
    /\ report_file = None
    /\ exc = None
    /\ log_errors = <<>>
    /\ main_result = "running"
    /\ exit_status = None
    /\ runs = 1
    /\ t_pc = "loop"
    /\ results = <<>>
    /\ passed = 0
    /\ started = <<>>
    /\ api_calls = <<>>
    /\ t_ret = None
    /\ t_exc = None

\* lines 244-250 for a test that is one call: the test runs, and passed is
\* incremented when what it returns is truthy
RunTest ==
    /\ t_pc = "loop"
    /\ Len(started) < Total
    /\ TestNames[Len(started) + 1] # "API Endpoints"
    /\ LET name == TestNames[Len(started) + 1]
       IN  \E dep \in TestAnswers(name) :
             LET r == TestFunc(name, dep)
             IN  /\ started' = Append(started, [name |-> name, dep |-> dep])
                 /\ results' = results \o r.logged
                 /\ passed' = IF Truthy(r.completion.value) THEN passed + 1 ELSE passed
    /\ UNCHANGED <<t_pc, api_calls, t_ret, t_exc, poc_vars>>

\* lines 244-247 for test_api_endpoints: control enters its loop
EnterApiTest ==
    /\ t_pc = "loop"
    /\ Len(started) < Total
    /\ TestNames[Len(started) + 1] = "API Endpoints"
    /\ started' = Append(started, [name |-> "API Endpoints", dep |-> [kind |-> "loop"]])
    /\ api_calls' = <<>>
    /\ t_pc' = "api"
    /\ UNCHANGED <<results, passed, t_ret, t_exc, poc_vars>>

\* lines 137-145 for the next endpoint; an error the loop does not catch
\* leaves test_api_endpoints and is caught by run_all_tests (lines 249-250)
ProbeEndpoint ==
    /\ t_pc = "api"
    /\ Len(api_calls) < Len(Endpoints)
    /\ \E ans \in EndpointAnswers :
         LET r == ProbeEndpointBody(Endpoints[Len(api_calls) + 1], ans)
         IN  /\ api_calls' = Append(api_calls, ans)
             /\ IF r.completion.raises
                THEN /\ results' = Append(results,
                             LogResult("TEST_RUNNER", "FAILED",
                                       <<"API Endpoints", "crashed", StrExc(r.completion.exc)>>))
                     /\ t_pc' = "loop"
                ELSE /\ results' = results \o r.logged
                     /\ t_pc' = "api"
    /\ UNCHANGED <<passed, started, t_ret, t_exc, poc_vars>>

\* test_api_endpoints falls off its end; lines 247-248 test what it returned
ApiTestReturn ==
    /\ t_pc = "api"
    /\ Len(api_calls) = Len(Endpoints)
    /\ passed' = IF Truthy(test_api_endpoints_value) THEN passed + 1 ELSE passed
    /\ t_pc' = "loop"
    /\ UNCHANGED <<results, started, api_calls, t_ret, t_exc, poc_vars>>

\* lines 252-269: the summary is printed and written, passed == total returned
FinishTests ==
    /\ t_pc = "loop"
    /\ Len(started) = Total
    /\ \E fs \in ResultsFileAnswers :
         IF fs.kind = "ok"
         THEN /\ t_ret' = Some(passed = Total)
              /\ UNCHANGED t_exc
         ELSE /\ t_exc' = Some(fs.exc)
              /\ UNCHANGED t_ret
    /\ t_pc' = "done"
    /\ UNCHANGED <<results, passed, started, api_calls, poc_vars>>

NextTest ==
    \/ RunTest
    \/ EnterApiTest
    \/ ProbeEndpoint
    \/ ApiTestReturn
    \/ FinishTests

SpecTest == InitTest /\ [][NextTest]_vars

-----------------------------------------------------------------------------
(* Properties.                                                             *)

\* the i-th probe call of this run has completed
Completed(i) == i \in 1..Len(calls) /\ ~(pc = "probe" /\ i = Len(calls))

\* run_health_checks has returned its mapping
HealthChecksReturned == pc \in {"csm", "build", "demos", "print"} \/ system_metrics # None

\* C1: the overall status of a report is "healthy" exactly when no component
\* status is "unhealthy" and "degraded" exactly when at least one is, for
\* every list of statuses (the empty one and the all-degraded ones included);
\* no other overall status is produced.
C1_OverallStatus ==
    report # None =>
        LET st == StatusList(report[1].health_checks)
            someUnhealthy == \E i \in 1..Len(st) : st[i] = "unhealthy"
        IN  /\ report[1].overall_status \in {"healthy", "degraded"}
            /\ (report[1].overall_status = "healthy") <=> ~someUnhealthy
            /\ (report[1].overall_status = "degraded") <=> someUnhealthy

\* a report built from a non-empty list of degraded statuses only
C1_Witness ==
    /\ report # None
    /\ Len(report[1].health_checks) >= 2
    /\ \A i \in 1..Len(report[1].health_checks) :
           report[1].health_checks[i].value.status = "degraded"
    /\ report[1].overall_status = "healthy"

\* C2: in every report, component_summary.total is the number of entries of
\* health_checks and the three counts add up to total.
C2_SummaryCounts ==
    report # None =>
        LET cs == report[1].component_summary
        IN  /\ cs.total = Len(report[1].health_checks)
            /\ cs.healthy + cs.degraded + cs.unhealthy = cs.total

\* a report whose results show each of the three statuses
C2_Witness ==
    /\ report # None
    /\ report[1].component_summary.healthy >= 1
    /\ report[1].component_summary.degraded >= 1
    /\ report[1].component_summary.unhealthy >= 1

\* C3: when the dependency call of a probe raises an error, the probe returns
\* (run_health_checks goes on) a result with status "unhealthy" whose
\* details.error is not empty.
C3_ErrorGivesNonEmptyDetail ==
    \A i \in 1..Len(calls) :
        (Completed(i) /\ calls[i].dep.kind = "raise") =>
            /\ exc = None \/ exc[1].traceback # calls[i].probe
            /\ i <= Len(health_checks)
            /\ health_checks[i].value.status = "unhealthy"
            /\ "error" \in DOMAIN health_checks[i].value.details
            /\ health_checks[i].value.details.error # ""

\* C4: when a probe's invocation throws outside its own catch,
\* run_health_checks does not raise and its mapping has an entry for that
\* probe with status "unhealthy" and the error in details.error.
C4_DefectGivesUnhealthyEntry ==
    \A i \in 1..Len(calls) :
        (Completed(i) /\ calls[i].dep.kind = "defect") =>
            /\ exc = None
            /\ i <= Len(health_checks)
            /\ health_checks[i].key = ProbeKeys[i]
            /\ health_checks[i].value.status = "unhealthy"
            /\ "error" \in DOMAIN health_checks[i].value.details

\* C5: whatever collect_system_metrics returns has the keys 'timestamp' and
\* 'uptime_seconds', with psutil available or not.
C5_TimestampAndUptime ==
    system_metrics # None =>
        {"timestamp", "uptime_seconds"} \subseteq DOMAIN system_metrics[1]

\* C6: an error raised while the probes run or while the metrics are computed
\* does not prevent the report: generate_system_report returns one and
\* run_comprehensive_demo writes the report file.
C6_ReportDespiteErrors ==
    (pc = "done" /\ exc # None
        /\ exc[1].traceback \in {"collect_system_metrics"} \cup
                                { ProbeMethods[i] : i \in 1..Len(ProbeMethods) }) =>
        /\ report # None
        /\ report_file # None

\* C7: the search probe returns "healthy" when the ping succeeds and the
\* cluster is green or yellow, "degraded" when the ping succeeds and the
\* cluster is anything else, "unhealthy" when the ping fails or a call raises;
\* no other probe ever returns "degraded".
C7_SearchStatus ==
    \A i \in 1..Len(health_checks) :
        LET dep == calls[i].dep
            got == health_checks[i].value.status
        IN  IF calls[i].probe = "check_search_health"
            THEN /\ (dep.kind = "ok" /\ dep.ping
                        /\ dep.cluster_health.status \in {"green", "yellow"})
                         => got = "healthy"
                 /\ (dep.kind = "ok" /\ dep.ping
                        /\ dep.cluster_health.status \notin {"green", "yellow"})
                         => got = "degraded"
                 /\ (dep.kind = "raise" \/ (dep.kind = "ok" /\ ~dep.ping))
                         => got = "unhealthy"
            ELSE got # "degraded"

\* the search probe has answered "degraded" for a red cluster that answers pings
C7_Witness ==
    /\ Len(health_checks) >= 3
    /\ calls[3].probe = "check_search_health"
    /\ calls[3].dep.kind = "ok"
    /\ calls[3].dep.ping
    /\ calls[3].dep.cluster_health.status = "red"
    /\ health_checks[3].value.status = "degraded"

\* C8: for each known component among the recorded probe results, what
\* collect_system_metrics returns maps '<component>_response_ms' to that
\* component's response time, with psutil available or not.
C8_ResponseTimesCopied ==
    system_metrics # None =>
        \A c \in KnownComponents :
            HasKey(health_status, c) =>
                /\ ResponseKey(c) \in DOMAIN system_metrics[1]
                /\ system_metrics[1][ResponseKey(c)] = Get(health_status, c).response_time_ms

C10_ProbeOrder ==
    /\ Len(calls) <= Len(ProbeMethods)
    /\ \A i \in 1..Len(calls) : calls[i].probe = ProbeMethods[i]
    /\ pc = "probe" => Len(health_checks) = Len(calls) - 1
    /\ pc = "rhc" => Len(health_checks) = Len(calls)
    /\ HealthChecksReturned =>
           /\ Len(calls) = Len(ProbeMethods)
           /\ Keys(health_status) = <<"database", "cache", "search", "graph">>
           /\ \A i \in 1..Len(health_status) :
                  health_status[i].value.component = health_status[i].key

\* run_health_checks has just returned its four results
C10_Witness ==
    /\ pc = "csm"
    /\ Len(health_status) = 4
    /\ Len(calls) = 4

\* the entries test_api_endpoints has logged, in order
ApiResults == SelectSeq(results, LAMBDA r : r.component = "API")

\* C11: in the API endpoint check a response with any 2xx status code or
\* with 404 is logged with status SUCCESS, and a request error on one endpoint
\* does not keep the remaining endpoints from being probed.
C11_ResponsiveEndpoints ==
    \A i \in 1..Len(api_calls) :
        /\ (api_calls[i].kind = "response"
              /\ (api_calls[i].status_code \in 200..299 \/ api_calls[i].status_code = 404)) =>
               /\ i <= Len(ApiResults)
               /\ ApiResults[i].status = "SUCCESS"
        /\ (api_calls[i].kind = "raise" /\ "RequestException" \in Ancestors(api_calls[i].exc.type)) =>
               /\ i <= Len(ApiResults)
               /\ ApiResults[i].status = "INFO"
               /\ (i = Len(api_calls) /\ i < Len(Endpoints)) => t_pc = "api"

\* the i-th check of run_all_tests did what it checks for
CheckSucceeded(i) ==
    IF started[i].name = "API Endpoints"
    THEN \A j \in 1..Len(results) : results[j].component # "TEST_RUNNER"
    ELSE /\ started[i].dep.kind = "ok"
         /\ started[i].name = "Elasticsearch" => started[i].dep.ping

\* C12: run_all_tests runs all seven checks even if one crashes, keeps
\* passed <= total and returns True exactly when every check succeeded; when
\* every dependency is reachable and no check logs FAILED it ends with
\* passed == total and returns True.
C12_SuiteVerdict ==
    (t_pc = "done" /\ t_ret # None) =>
        /\ Len(started) = Len(TestNames)
        /\ \A i \in 1..Len(started) : started[i].name = TestNames[i]
        /\ passed <= Total
        /\ t_ret[1] <=> (\A i \in 1..Len(started) : CheckSucceeded(i))
        /\ (\A j \in 1..Len(results) : results[j].status # "FAILED") =>
               /\ passed = Total
               /\ t_ret[1]

\* two Python dicts with string keys are equal
SameDict(a, b) == DOMAIN a = DOMAIN b /\ \A k \in DOMAIN a : a[k] = b[k]

\* C13: when a call of generate_system_report returns, whatever calls came
\* before it on the object, self.health_status is the probe results of this
\* call, self.metrics is the system_metrics of this call's report, and every
\* '<component>_response_ms' of the report is the response_time_ms of the
\* report's own health_checks entry.
C13_FieldsOfLastRun ==
    (pc = "demos" /\ report # None) =>
        /\ health_status = report[1].health_checks
        /\ SameDict(metrics, report[1].system_metrics)
        /\ \A i \in 1..Len(report[1].health_checks) :
               LET e == report[1].health_checks[i]
               IN  (e.key \in KnownComponents
                       /\ ResponseKey(e.key) \in DOMAIN report[1].system_metrics) =>
                      report[1].system_metrics[ResponseKey(e.key)] = e.value.response_time_ms

=============================================================================
